---------------------------- MODULE Spec2Model ----------------------------
(***************************************************************************)
(* Response classification of the strict Effect API client.                *)
(*                                                                         *)
(* One call runs executeRequest: the transport step produces a RawResponse *)
(* or fails, then the operation's dispatcher classifies the response.      *)
(* Texts (header values, body texts) are TLA+ strings handled character by *)
(* character; an optional value (string | undefined) is a sequence of      *)
(* length 0 or 1.                                                          *)
(***************************************************************************)
EXTENDS Integers, Sequences, FiniteSets, TLC

VARIABLES
  decoders,     \* the decoders module linked with the dispatchers
  client,       \* the strict-client module in use: HttpClient based or fetch based
  pc,           \* position of executeRequest
  config,       \* StrictRequestInit of the current call
  request,      \* the request executeRequest hands to the transport
  signal,       \* the AbortSignal of config.signal, <<>> when none was passed
  response,     \* the transport's response (status, headers), body unread
  rawResponse,  \* RawResponse handed to the dispatcher
  exit,         \* exit of executeRequest
  parseCalls,   \* JSON.parse calls of the current call
  decodeCalls,  \* decoders invoked by the current call, in order
  calls,        \* calls started so far
  fault,        \* history: the fault the transport step of the call raised
  abortedAt,    \* history: position of the call when its signal was triggered
  dispatched,   \* history: invocations of config.dispatcher by the current call
  other,        \* a second call in flight at the same time, <<>> when none
  facade,       \* the facade call being made, <<>> when none
  generated,    \* the files the generator wrote for a schema, <<>> when none
  variants      \* the response types of an operation, <<>> when none

\* the state of the call in progress
callVars == <<pc, config, request, signal, response, rawResponse, exit, parseCalls,
              decodeCalls, calls, fault, abortedAt, dispatched>>

\* what the generator and the type checker produce before any call
genVars == <<generated, variants>>

vars == <<decoders, client, callVars, other, facade, genVars>>

(***************************************************************************)
(* Bounds                                                                  *)
(***************************************************************************)
MaxCalls == 2

(***************************************************************************)
(* Strings                                                                 *)
(***************************************************************************)
CharAt(s, i) == SubSeq(s, i, i)

\* String.prototype.includes: some window of s equals sub
Includes(s, sub) ==
  \E i \in 1..(Len(s) - Len(sub) + 1) : SubSeq(s, i, i + Len(sub) - 1) = sub

\* s has the literal lit at position i
HasAt(s, i, lit) ==
  /\ i + Len(lit) - 1 <= Len(s)
  /\ SubSeq(s, i, i + Len(lit) - 1) = lit

UpperCase == "ABCDEFGHIJKLMNOPQRSTUVWXYZ"

LowerCase == "abcdefghijklmnopqrstuvwxyz"

UpperChar(c) ==
  IF \E k \in 1..26 : CharAt(LowerCase, k) = c
  THEN CharAt(UpperCase, CHOOSE k \in 1..26 : CharAt(LowerCase, k) = c)
  ELSE c

\* byte-uppercase of a text
RECURSIVE ToUpper(_)
ToUpper(s) ==
  IF Len(s) = 0 THEN "" ELSE UpperChar(CharAt(s, 1)) \o ToUpper(SubSeq(s, 2, Len(s)))

Digits == {"0", "1", "2", "3", "4", "5", "6", "7", "8", "9"}

DigitVal(c) ==
  CASE c = "0" -> 0 [] c = "1" -> 1 [] c = "2" -> 2 [] c = "3" -> 3
    [] c = "4" -> 4 [] c = "5" -> 5 [] c = "6" -> 6 [] c = "7" -> 7
    [] c = "8" -> 8 [] c = "9" -> 9

(***************************************************************************)
(* JSON.parse on the JSON texts of the model: JSON whitespace, the         *)
(* literals null/true/false, non-negative integers without leading zeros,  *)
(* strings without escapes or control characters, arrays and objects.      *)
(* A parse step returns [ok, val, pos]: pos is the first position after    *)
(* the value.  Values are tagged records; an object is the sequence of its *)
(* members in source order.                                                *)
(***************************************************************************)
JNull == [t |-> "null"]
JBool(b) == [t |-> "bool", b |-> b]
JNum(n) == [t |-> "num", n |-> n]
JStr(s) == [t |-> "str", s |-> s]
JArr(a) == [t |-> "arr", a |-> a]
JObj(o) == [t |-> "obj", o |-> o]

Fail == [ok |-> FALSE]
Ok(v, p) == [ok |-> TRUE, val |-> v, pos |-> p]

JsonWhitespace == {" ", "\n", "\t", "\r"}

RECURSIVE SkipWs(_, _)
SkipWs(s, i) ==
  IF i <= Len(s) /\ CharAt(s, i) \in JsonWhitespace THEN SkipWs(s, i + 1) ELSE i

\* position of the closing quote of a string whose content starts at i, or 0
RECURSIVE StringEnd(_, _)
StringEnd(s, i) ==
  IF i > Len(s) THEN 0
  ELSE IF CharAt(s, i) = "\"" THEN i
  ELSE IF CharAt(s, i) \in {"\\", "\n", "\t", "\r"} THEN 0
  ELSE StringEnd(s, i + 1)

ParseString(s, i) ==
  LET e == StringEnd(s, i + 1)
  IN  IF e = 0 THEN Fail ELSE Ok(SubSeq(s, i + 1, e - 1), e + 1)

RECURSIVE NumberEnd(_, _)
NumberEnd(s, i) ==
  IF i <= Len(s) /\ CharAt(s, i) \in Digits THEN NumberEnd(s, i + 1) ELSE i

RECURSIVE NumberVal(_, _, _, _)
NumberVal(s, i, e, acc) ==
  IF i >= e THEN acc ELSE NumberVal(s, i + 1, e, acc * 10 + DigitVal(CharAt(s, i)))

ParseNumber(s, i) ==
  LET e == NumberEnd(s, i)
  IN  IF CharAt(s, i) = "0" /\ e > i + 1 THEN Ok(JNum(0), i + 1)
      ELSE Ok(JNum(NumberVal(s, i, e, 0)), e)

RECURSIVE ParseValue(_, _)
RECURSIVE ParseElements(_, _, _)
RECURSIVE ParseMembers(_, _, _)

ParseValue(s, i0) ==
  LET i == SkipWs(s, i0)
      c == IF i <= Len(s) THEN CharAt(s, i) ELSE ""
  IN  IF c = "" THEN Fail
      ELSE IF c = "n" THEN (IF HasAt(s, i, "null") THEN Ok(JNull, i + 4) ELSE Fail)
      ELSE IF c = "t" THEN (IF HasAt(s, i, "true") THEN Ok(JBool(TRUE), i + 4) ELSE Fail)
      ELSE IF c = "f" THEN (IF HasAt(s, i, "false") THEN Ok(JBool(FALSE), i + 5) ELSE Fail)
      ELSE IF c = "\"" THEN
        LET r == ParseString(s, i)
        IN  IF r.ok THEN Ok(JStr(r.val), r.pos) ELSE Fail
      ELSE IF c \in Digits THEN ParseNumber(s, i)
      ELSE IF c = "[" THEN
        LET j == SkipWs(s, i + 1)
        IN  IF HasAt(s, j, "]") THEN Ok(JArr(<<>>), j + 1)
            ELSE ParseElements(s, j, <<>>)
      ELSE IF c = "{" THEN
        LET j == SkipWs(s, i + 1)
        IN  IF HasAt(s, j, "}") THEN Ok(JObj(<<>>), j + 1)
            ELSE ParseMembers(s, j, <<>>)
      ELSE Fail

\* elements of a non-empty array, the first one starting at i
ParseElements(s, i, acc) ==
  LET r == ParseValue(s, i)
  IN  IF ~r.ok THEN Fail
      ELSE LET j == SkipWs(s, r.pos)
               got == Append(acc, r.val)
           IN  IF HasAt(s, j, "]") THEN Ok(JArr(got), j + 1)
               ELSE IF HasAt(s, j, ",") THEN ParseElements(s, j + 1, got)
               ELSE Fail

\* JSON.parse keeps the last value of a repeated key, at the key's first place
PutMember(acc, k, v) ==
  IF \E n \in 1..Len(acc) : acc[n][1] = k
  THEN [n \in 1..Len(acc) |-> IF acc[n][1] = k THEN <<k, v>> ELSE acc[n]]
  ELSE Append(acc, <<k, v>>)

\* members of a non-empty object, the first key starting at i
ParseMembers(s, i0, acc) ==
  LET i == SkipWs(s, i0)
  IN  IF ~HasAt(s, i, "\"") THEN Fail
      ELSE LET k == ParseString(s, i)
           IN  IF ~k.ok THEN Fail
               ELSE LET c == SkipWs(s, k.pos)
                    IN  IF ~HasAt(s, c, ":") THEN Fail
                        ELSE LET r == ParseValue(s, c + 1)
                             IN  IF ~r.ok THEN Fail
                                 ELSE LET j == SkipWs(s, r.pos)
                                          got == PutMember(acc, k.val, r.val)
                                      IN  IF HasAt(s, j, "}") THEN Ok(JObj(got), j + 1)
                                          ELSE IF HasAt(s, j, ",") THEN ParseMembers(s, j + 1, got)
                                          ELSE Fail

\* the text is one value r, then only whitespace up to the end
Complete(text, r) ==
  IF r.ok /\ SkipWs(text, r.pos) > Len(text) THEN [ok |-> TRUE, val |-> r.val]
  ELSE [ok |-> FALSE]

\* JSON.parse(text): the value, or a thrown SyntaxError (ok = FALSE)
JSONparse(text) == Complete(text, ParseValue(text, 1))

(***************************************************************************)
(* Effect values: an Effect that has run is its exit, in the success       *)
(* channel ("Right" of Effect.either), in the failure channel ("Left"), or *)
(* a defect ("Die").  A classification step also reports how often it      *)
(* called JSON.parse and which decoders it invoked.                        *)
(***************************************************************************)
Succeed(v) == [channel |-> "Right", value |-> v]
FailWith(e) == [channel |-> "Left", value |-> e]
Die(d) == [channel |-> "Die", value |-> d]

Undefined == [t |-> "undefined"]

Traced(e, p, d) == [exit |-> e, parses |-> p, decodes |-> d]

(***************************************************************************)
(* strict-client.ts helpers                                                *)
(***************************************************************************)
\* mutant: the helper drops the body text
unexpectedStatus_noBody(status, body) ==
  [_tag |-> "UnexpectedStatus", status |-> status, body |-> ""]

unexpectedStatus(status, body) ==
  [_tag |-> "UnexpectedStatus", status |-> status, body |-> body]

unexpectedContentType(status, expected, actual, body) ==
  [_tag |-> "UnexpectedContentType", status |-> status, expected |-> expected,
   actual |-> actual, body |-> body]

\* JSON.parse throws a SyntaxError, which is an Error: the catch keeps it
SyntaxError == [name |-> "SyntaxError", isError |-> TRUE]

\* Effect.try: the value of try, or what catch makes of the thrown error
tryCatch(status, contentType, text, r) ==
  IF r.ok THEN Succeed(r.val)
  ELSE FailWith([_tag |-> "ParseError", status |-> status,
                 contentType |-> contentType, error |-> SyntaxError,
                 body |-> text])

parseJSON(status, contentType, text) ==
  tryCatch(status, contentType, text, JSONparse(text))

\* Headers.get(name): the value, or null when the header is absent
HeadersGet(headers, name) ==
  IF name \in DOMAIN headers THEN <<headers[name]>> ELSE <<>>

(***************************************************************************)
(* Decoders.  The generated module holds stubs; a validating decoder of    *)
(* the documented shape (mapError to DecodeError) is the one of the        *)
(* boundary-error tests: it accepts objects having "id" and "name".        *)
(***************************************************************************)
DecoderNames ==
  {"decodelistPets_200", "decodelistPets_500",
   "decodecreatePet_201", "decodecreatePet_400", "decodecreatePet_500",
   "decodegetPet_200", "decodegetPet_404", "decodegetPet_500",
   "decodedeletePet_404", "decodedeletePet_500"}

DecoderImpls == {"stub", "validating"}

ValidationError == [name |-> "Error", isError |-> TRUE]

\* mutant: the stub keeps only objects and arrays and fails for other values
stubDecoder_rejectsScalars(status, contentType, body, parsed) ==
  IF parsed.t \in {"obj", "arr"} /\ parsed # JArr(<<>>) THEN Succeed(parsed)
  ELSE FailWith([_tag |-> "DecodeError", status |-> status,
                 contentType |-> contentType, error |-> ValidationError,
                 body |-> body])

stubDecoder(status, contentType, body, parsed) == Succeed(parsed)

HasKey(parsed, k) ==
  /\ parsed.t = "obj"
  /\ \E n \in 1..Len(parsed.o) : parsed.o[n][1] = k

\* mutant: the decoder throws its validation error instead of failing with it
mockDecoder_throws(status, contentType, body, parsed) ==
  IF HasKey(parsed, "id") /\ HasKey(parsed, "name")
  THEN Succeed(parsed)
  ELSE Die(ValidationError)

mockDecoder(status, contentType, body, parsed) ==
  IF HasKey(parsed, "id") /\ HasKey(parsed, "name")
  THEN Succeed(parsed)
  ELSE FailWith([_tag |-> "DecodeError", status |-> status,
                 contentType |-> contentType, error |-> ValidationError,
                 body |-> body])

\* the decoder exported under a name by the decoders module in use
Decoders(name, status, contentType, body, parsed) ==
  IF decoders = "stub" THEN stubDecoder(status, contentType, body, parsed)
  ELSE mockDecoder(status, contentType, body, parsed)


(***************************************************************************)
(* generated/dispatch.ts                                                   *)
(***************************************************************************)
\* Effect.gen of processJsonContent after "yield* decoder(...)"
genDecoded(status, decoder, decoded) ==
  IF decoded.channel # "Right" THEN Traced(decoded, 1, <<decoder>>)
  ELSE Traced(Succeed([status |-> status, contentType |-> "application/json",
                       body |-> decoded.value]),
              1, <<decoder>>)

\* Effect.gen of processJsonContent after "yield* parseJSON(...)"
genParsed(status, text, decoder, parsed) ==
  IF parsed.channel # "Right" THEN Traced(parsed, 1, <<>>)
  ELSE genDecoded(status, decoder,
                  Decoders(decoder, status, "application/json", text, parsed.value))

\* mutant: the generator is given the content type to pass on
genParsed_rawContentType(status, contentType, text, decoder, parsed) ==
  IF parsed.channel # "Right" THEN Traced(parsed, 1, <<>>)
  ELSE IF Decoders(decoder, status, contentType, text, parsed.value).channel # "Right"
  THEN Traced(Decoders(decoder, status, contentType, text, parsed.value),
              1, <<decoder>>)
  ELSE Traced(Succeed([status |-> status, contentType |-> contentType,
                       body |-> Decoders(decoder, status, contentType, text,
                                         parsed.value).value]),
              1, <<decoder>>)

\* mutant: a declared status outside 200..299 is failed with its response
processJsonContent_failNon2xx(status, contentType, text, decoder) ==
  IF Len(contentType) = 1 /\ Includes(contentType[1], "application/json")
  THEN LET r == genParsed(status, text, decoder,
                          parseJSON(status, "application/json", text))
       IN  IF status \notin 200..299 /\ r.exit.channel = "Right"
           THEN Traced(FailWith(r.exit.value), r.parses, r.decodes)
           ELSE r
  ELSE Traced(FailWith(unexpectedContentType(status, <<"application/json">>,
                                             contentType, text)),
              0, <<>>)

\* mutant: the body is parsed before the content type is looked at
processJsonContent_parseFirst(status, contentType, text, decoder) ==
  IF Len(contentType) = 1 /\ Includes(contentType[1], "application/json")
  THEN genParsed(status, text, decoder, parseJSON(status, "application/json", text))
  ELSE IF parseJSON(status, "application/json", text).channel # "Right"
  THEN Traced(parseJSON(status, "application/json", text), 1, <<>>)
  ELSE Traced(FailWith(unexpectedContentType(status, <<"application/json">>,
                                             contentType, text)),
              1, <<>>)

\* mutant: includes is called on the content type without the optional chain
processJsonContent_noOptionalChain(status, contentType, text, decoder) ==
  IF Len(contentType) = 0
  THEN Traced(Die([name |-> "TypeError", isError |-> TRUE]), 0, <<>>)
  ELSE IF Includes(contentType[1], "application/json")
  THEN genParsed(status, text, decoder, parseJSON(status, "application/json", text))
  ELSE Traced(FailWith(unexpectedContentType(status, <<"application/json">>,
                                             contentType, text)),
              0, <<>>)

\* mutant: the outcome carries the response's content-type header value
processJsonContent_rawContentType(status, contentType, text, decoder) ==
  IF Len(contentType) = 1 /\ Includes(contentType[1], "application/json")
  THEN genParsed_rawContentType(status, contentType[1], text, decoder,
                                parseJSON(status, contentType[1], text))
  ELSE Traced(FailWith(unexpectedContentType(status, <<"application/json">>,
                                             contentType, text)),
              0, <<>>)

processJsonContent(status, contentType, text, decoder) ==
  IF Len(contentType) = 1 /\ Includes(contentType[1], "application/json")
  THEN genParsed(status, text, decoder, parseJSON(status, "application/json", text))
  ELSE Traced(FailWith(unexpectedContentType(status, <<"application/json">>,
                                             contentType, text)),
              0, <<>>)

\* mutant: the Match chain has no orElse branch, an unmatched status is a defect
classifylistPets_noOrElse(status, contentType, text) ==
  IF status = 200
  THEN processJsonContent(200, contentType, text, "decodelistPets_200")
  ELSE IF status = 500
  THEN processJsonContent(500, contentType, text, "decodelistPets_500")
  ELSE Traced(Die("unmatched value"), 0, <<>>)

classifylistPets(status, contentType, text) ==
  IF status = 200
  THEN processJsonContent(200, contentType, text, "decodelistPets_200")
  ELSE IF status = 500
  THEN processJsonContent(500, contentType, text, "decodelistPets_500")
  ELSE Traced(FailWith(unexpectedStatus(status, text)), 0, <<>>)

classifycreatePet(status, contentType, text) ==
  IF status = 201
  THEN processJsonContent(201, contentType, text, "decodecreatePet_201")
  ELSE IF status = 400
  THEN processJsonContent(400, contentType, text, "decodecreatePet_400")
  ELSE IF status = 500
  THEN processJsonContent(500, contentType, text, "decodecreatePet_500")
  ELSE Traced(FailWith(unexpectedStatus(status, text)), 0, <<>>)

classifygetPet(status, contentType, text) ==
  IF status = 200
  THEN processJsonContent(200, contentType, text, "decodegetPet_200")
  ELSE IF status = 404
  THEN processJsonContent(404, contentType, text, "decodegetPet_404")
  ELSE IF status = 500
  THEN processJsonContent(500, contentType, text, "decodegetPet_500")
  ELSE Traced(FailWith(unexpectedStatus(status, text)), 0, <<>>)

\* mutant: 204 is handled as a JSON status like the others
classifydeletePet_json204(status, contentType, text) ==
  IF status = 204
  THEN processJsonContent(204, contentType, text, "decodedeletePet_404")
  ELSE IF status = 404
  THEN processJsonContent(404, contentType, text, "decodedeletePet_404")
  ELSE IF status = 500
  THEN processJsonContent(500, contentType, text, "decodedeletePet_500")
  ELSE Traced(FailWith(unexpectedStatus(status, text)), 0, <<>>)

\* mutant: 204 succeeds only with a well-formed body and without content type
classifydeletePet_strict204(status, contentType, text) ==
  IF status = 204
  THEN IF contentType # <<>>
       THEN Traced(FailWith(unexpectedContentType(204, <<>>, contentType, text)),
                   0, <<>>)
       ELSE IF text # "" /\ parseJSON(204, "none", text).channel # "Right"
       THEN Traced(parseJSON(204, "none", text), 1, <<>>)
       ELSE Traced(Succeed([status |-> 204, contentType |-> "none",
                            body |-> Undefined]), 0, <<>>)
  ELSE IF status = 404
  THEN processJsonContent(404, contentType, text, "decodedeletePet_404")
  ELSE IF status = 500
  THEN processJsonContent(500, contentType, text, "decodedeletePet_500")
  ELSE Traced(FailWith(unexpectedStatus(status, text)), 0, <<>>)

classifydeletePet(status, contentType, text) ==
  IF status = 204
  THEN Traced(Succeed([status |-> 204, contentType |-> "none",
                       body |-> Undefined]), 0, <<>>)
  ELSE IF status = 404
  THEN processJsonContent(404, contentType, text, "decodedeletePet_404")
  ELSE IF status = 500
  THEN processJsonContent(500, contentType, text, "decodedeletePet_500")
  ELSE Traced(FailWith(unexpectedStatus(status, text)), 0, <<>>)

\* the classify function of the transport tests: every response succeeds
classifySucceedAlways(status, contentType, text) ==
  Traced(Succeed([status |-> 200, contentType |-> "application/json",
                  body |-> [t |-> "obj", o |-> <<>>]]), 0, <<>>)

Operations == {"listPets", "createPet", "getPet", "deletePet"}

\* the classify function of an operation's dispatcher
classifyOf(op, status, contentType, text) ==
  CASE op = "listPets" -> classifylistPets(status, contentType, text)
    [] op = "createPet" -> classifycreatePet(status, contentType, text)
    [] op = "getPet" -> classifygetPet(status, contentType, text)
    [] op = "deletePet" -> classifydeletePet(status, contentType, text)
    [] op = "succeedAlways" -> classifySucceedAlways(status, contentType, text)

\* createDispatcher(classify)(response): null from Headers.get becomes undefined
createDispatcher(op, resp) ==
  classifyOf(op, resp.status, HeadersGet(resp.headers, "content-type"), resp.text)

(***************************************************************************)
(* The dispatch file of the fetch based package: the dispatchers the       *)
(* generator writes, with a switch over the status and the generator of    *)
(* processJsonContent written out in every case.                           *)
(***************************************************************************)
\* Effect.gen of a case after "yield* Decoders.decode...(...)"
genCaseDecoded(literal, decoder, decoded) ==
  IF decoded.channel # "Right" THEN Traced(decoded, 1, <<decoder>>)
  ELSE Traced(Succeed([status |-> literal, contentType |-> "application/json",
                       body |-> decoded.value]),
              1, <<decoder>>)

\* Effect.gen of a case after "yield* parseJSON(...)"
genCaseParsed(status, literal, text, decoder, parsed) ==
  IF parsed.channel # "Right" THEN Traced(parsed, 1, <<>>)
  ELSE genCaseDecoded(literal, decoder,
                      Decoders(decoder, status, "application/json", text,
                               parsed.value))

\* mutant: the case compares the content type with ===
jsonCase_strictEquals(status, literal, contentType, text, decoder) ==
  IF contentType = <<"application/json">>
  THEN genCaseParsed(status, literal, text, decoder,
                     parseJSON(status, "application/json", text))
  ELSE Traced(FailWith(unexpectedContentType(status, <<"application/json">>,
                                             contentType, text)),
              0, <<>>)

\* the body of "case literal:" for a status with a JSON body
jsonCase(status, literal, contentType, text, decoder) ==
  IF Len(contentType) = 1 /\ Includes(contentType[1], "application/json")
  THEN genCaseParsed(status, literal, text, decoder,
                     parseJSON(status, "application/json", text))
  ELSE Traced(FailWith(unexpectedContentType(status, <<"application/json">>,
                                             contentType, text)),
              0, <<>>)

switchlistPets(status, contentType, text) ==
  IF status = 200
  THEN jsonCase(status, 200, contentType, text, "decodelistPets_200")
  ELSE IF status = 500
  THEN jsonCase(status, 500, contentType, text, "decodelistPets_500")
  ELSE Traced(FailWith(unexpectedStatus(status, text)), 0, <<>>)

switchcreatePet(status, contentType, text) ==
  IF status = 201
  THEN jsonCase(status, 201, contentType, text, "decodecreatePet_201")
  ELSE IF status = 400
  THEN jsonCase(status, 400, contentType, text, "decodecreatePet_400")
  ELSE IF status = 500
  THEN jsonCase(status, 500, contentType, text, "decodecreatePet_500")
  ELSE Traced(FailWith(unexpectedStatus(status, text)), 0, <<>>)

switchgetPet(status, contentType, text) ==
  IF status = 200
  THEN jsonCase(status, 200, contentType, text, "decodegetPet_200")
  ELSE IF status = 404
  THEN jsonCase(status, 404, contentType, text, "decodegetPet_404")
  ELSE IF status = 500
  THEN jsonCase(status, 500, contentType, text, "decodegetPet_500")
  ELSE Traced(FailWith(unexpectedStatus(status, text)), 0, <<>>)

switchdeletePet(status, contentType, text) ==
  IF status = 204
  THEN Traced(Succeed([status |-> 204, contentType |-> "none",
                       body |-> Undefined]), 0, <<>>)
  ELSE IF status = 404
  THEN jsonCase(status, 404, contentType, text, "decodedeletePet_404")
  ELSE IF status = 500
  THEN jsonCase(status, 500, contentType, text, "decodedeletePet_500")
  ELSE Traced(FailWith(unexpectedStatus(status, text)), 0, <<>>)

\* the classify function of an operation's switch-based dispatcher
switchOf(op, status, contentType, text) ==
  CASE op = "listPets" -> switchlistPets(status, contentType, text)
    [] op = "createPet" -> switchcreatePet(status, contentType, text)
    [] op = "getPet" -> switchgetPet(status, contentType, text)
    [] op = "deletePet" -> switchdeletePet(status, contentType, text)
    [] op = "succeedAlways" -> classifySucceedAlways(status, contentType, text)

\* createDispatcher of the fetch based package
createSwitchDispatcher(op, resp) ==
  switchOf(op, resp.status, HeadersGet(resp.headers, "content-type"), resp.text)

\* config.dispatcher(rawResponse): each package links its own dispatch file
Dispatcher(op, resp) ==
  IF client = "platform" THEN createDispatcher(op, resp)
  ELSE createSwitchDispatcher(op, resp)

(***************************************************************************)
(* The schema table the dispatchers were generated from: per operation the *)
(* declared statuses, each with its content types (none for a status       *)
(* declared without a body).                                               *)
(***************************************************************************)
Json == <<"application/json">>

Schema(op) ==
  CASE op = "listPets" -> [s \in {200, 500} |-> Json]
    [] op = "createPet" -> [s \in {201, 400, 500} |-> Json]
    [] op = "getPet" -> [s \in {200, 404, 500} |-> Json]
    [] op = "deletePet" -> [s \in {204, 404, 500} |-> IF s = 204 THEN <<>> ELSE Json]

MethodOf(op) ==
  CASE op = "listPets" -> "get"
    [] op = "createPet" -> "post"
    [] op = "getPet" -> "get"
    [] op = "deletePet" -> "delete"

(***************************************************************************)
(* Inputs                                                                  *)
(***************************************************************************)
Statuses == {200, 201, 204, 299, 400, 404, 418, 500}

ContentTypeValues ==
  {"application/json", "application/json; charset=utf-8", "Application/JSON",
   "application/json-seq", "text/html", ""}

\* the response's Headers object: names are lower-case, at most one value each
HeaderSets ==
  {<<>>} \cup {[n \in {"content-type"} |-> v] : v \in ContentTypeValues}

BodyTexts ==
  {"", "[]", "[{\"id\":\"1\"}]", "{\"id\":\"1\",\"name\":\"Fluffy\"}",
   "{\"unexpected\": \"field\"}", "{\"bad\": json}", "{\"key\": \"value\"",
   "I'm a teapot", " {\"name\": \"Spot\", \"id\": 2, \"tags\": [null, true]} "}

\* the two strict-client modules: the HttpClient based one and the fetch based one
Clients == {"platform", "fetch"}

\* what the network layer fails with: fetch's TypeError
NetworkError == [name |-> "TypeError", isError |-> TRUE]

\* what fetch's Request constructor throws
RequestTypeError == [name |-> "TypeError", isError |-> TRUE, message |-> "Request"]

\* the DOMException an aborted request fails with
AbortError == [name |-> "AbortError", isError |-> TRUE]

\* signal.reason: the default AbortError of abort(), or the value given to
\* abort(reason), which need not be an Error
AbortReasons == {AbortError, [name |-> "timeout", isError |-> FALSE]}

\* HttpClientError values: Errors that carry the fault as their cause
RequestError(cause) == [name |-> "RequestError", isError |-> TRUE, cause |-> cause]

ResponseError(cause) == [name |-> "ResponseError", isError |-> TRUE, cause |-> cause]

TransportFaults ==
  {RequestError(NetworkError), RequestError(AbortError),
   ResponseError(NetworkError), NetworkError, RequestTypeError}
    \cup AbortReasons

NotAborted == [aborted |-> FALSE, reason |-> Undefined]

Aborted(reason) == [aborted |-> TRUE, reason |-> reason]

\* config.signal as the caller passes it
Signals == {<<>>, <<NotAborted>>}

\* fetch was given a signal sig that has been triggered: its promise rejects
RejectsWith(sig) == client = "fetch" /\ sig # <<>> /\ sig[1].aborted

\* fetch made no request: its promise rejects with the constructor's error
RequestRejected == request # <<>> /\ ~request[1].ok

Rejects == RequestRejected \/ RejectsWith(signal)

\* the faults a transport step pending at a position can raise
FaultsAt(position, sig) ==
  IF client = "platform"
  THEN IF position = "execute"
       THEN {RequestError(NetworkError), RequestError(AbortError)}
       ELSE {ResponseError(NetworkError)}
  ELSE IF RejectsWith(sig) THEN {sig[1].reason} ELSE {NetworkError}

Faults ==
  IF RequestRejected THEN {request[1].error} ELSE FaultsAt(pc, signal)

NewError(message) == [name |-> "Error", isError |-> TRUE, message |-> message]

\* mutant: every fault is replaced by a new Error
toTransportError_newError(error) ==
  [_tag |-> "TransportError", error |-> NewError("Transport failed")]

\* the mapError of executeRequest, the catch of Effect.tryPromise
toTransportError(error) ==
  [_tag |-> "TransportError",
   error |-> IF error.isError THEN error ELSE NewError(error.name)]

(***************************************************************************)
(* The request.  A StrictRequestInit has the fields method, url and        *)
(* dispatcher, and the fields headers and body when the caller gave them.  *)
(* The request handed to the transport is [ok, method, url, headers, body] *)
(* with optional headers and body; ok = FALSE with the error thrown when   *)
(* no request comes about.                                                 *)
(***************************************************************************)
\* HttpMethod of openapi-typescript-helpers
HttpMethods == {"get", "put", "post", "delete", "options", "head", "patch", "trace"}

methodMap ==
  [get |-> "GET", post |-> "POST", put |-> "PUT", patch |-> "PATCH",
   delete |-> "DELETE", head |-> "HEAD", options |-> "OPTIONS"]

\* buildRequest of the HttpClient based module
buildRequest(cfg) ==
  [ok |-> TRUE,
   method |-> IF cfg.method \in DOMAIN methodMap THEN methodMap[cfg.method]
              ELSE "GET",
   url |-> cfg.url,
   headers |-> IF "headers" \in DOMAIN cfg THEN <<cfg.headers>> ELSE <<>>,
   body |-> IF "body" \in DOMAIN cfg THEN <<cfg.body>> ELSE <<>>]

\* fetchInit of the fetch based module
fetchInit(cfg) ==
  [method |-> cfg.method,
   headers |-> IF "headers" \in DOMAIN cfg THEN <<cfg.headers>> ELSE <<>>,
   body |-> IF "body" \in DOMAIN cfg THEN <<cfg.body>> ELSE <<>>]

ForbiddenMethods == {"CONNECT", "TRACE", "TRACK"}

\* the methods whose byte-uppercase form fetch uses
NormalizedMethods == {"DELETE", "GET", "HEAD", "OPTIONS", "POST", "PUT"}

\* the method of the request fetch makes of init.method
FetchMethod(method) ==
  IF ToUpper(method) \in NormalizedMethods THEN ToUpper(method) ELSE method

\* fetch(url, init): the request of the call, or the TypeError for a
\* forbidden method and for a body on GET or HEAD
FetchRequest(url, init) ==
  IF ToUpper(init.method) \in ForbiddenMethods
       \/ (init.body # <<>> /\ FetchMethod(init.method) \in {"GET", "HEAD"})
  THEN [ok |-> FALSE, error |-> RequestTypeError]
  ELSE [ok |-> TRUE, method |-> FetchMethod(init.method), url |-> url,
        headers |-> init.headers, body |-> init.body]

\* the request of a call, as the client module in use makes it
requestOf(cfg) ==
  IF client = "platform" THEN buildRequest(cfg)
  ELSE FetchRequest(cfg.url, fetchInit(cfg))

(***************************************************************************)
(* executeRequest                                                          *)
(***************************************************************************)
Init ==
  /\ decoders \in DecoderImpls
  /\ client \in Clients
  /\ pc = "idle"
  /\ config = <<>>
  /\ request = <<>>
  /\ signal = <<>>
  /\ response = <<>>
  /\ rawResponse = <<>>
  /\ exit = <<>>
  /\ parseCalls = 0
  /\ decodeCalls = <<>>
  /\ calls = 0
  /\ fault = <<>>
  /\ abortedAt = ""
  /\ dispatched = 0
  /\ other = <<>>
  /\ facade = <<>>
  /\ generated = <<>>
  /\ variants = <<>>

\* a call starts with its StrictRequestInit
Start(cfg, sig) ==
  /\ pc \in {"idle", "done"}
  /\ calls < MaxCalls
  /\ calls' = calls + 1
  /\ config' = <<cfg>>
  /\ request' = <<requestOf(cfg)>>
  /\ signal' = sig
  /\ pc' = "execute"
  /\ response' = <<>>
  /\ rawResponse' = <<>>
  /\ exit' = <<>>
  /\ parseCalls' = 0
  /\ decodeCalls' = <<>>
  /\ fault' = <<>>
  /\ abortedAt' = ""
  /\ dispatched' = 0
  /\ UNCHANGED <<decoders, client, other, genVars>>

\* executeRequest is called for an operation: the request is built and
\* handed to the client
executeRequest(op, sig) ==
  /\ Start([method |-> MethodOf(op), url |-> "https://api.example.com/test",
            dispatcher |-> op], sig)
  /\ UNCHANGED facade

\* client.execute(request), fetch(url, init) succeeds with a response
ExecuteOk(status, headers) ==
  /\ pc = "execute"
  /\ ~Rejects
  /\ response' = <<[status |-> status, headers |-> headers]>>
  /\ pc' = "text"
  /\ UNCHANGED <<decoders, client, config, request, signal, rawResponse, exit, parseCalls,
                 decodeCalls, calls, fault, abortedAt, dispatched, other,
                 facade, genVars>>

\* response.text succeeds: the RawResponse is complete
TextOk(text) ==
  /\ pc = "text"
  /\ ~Rejects
  /\ rawResponse' = <<[status |-> response[1].status,
                      headers |-> response[1].headers, text |-> text]>>
  /\ pc' = "dispatch"
  /\ UNCHANGED <<decoders, client, config, request, signal, response, exit, parseCalls,
                 decodeCalls, calls, fault, abortedAt, dispatched, other,
                 facade, genVars>>

\* mutant: the fault is not mapped and leaves executeRequest as a defect
TransportFail_unmapped(error) ==
  /\ pc \in {"execute", "text"}
  /\ error \in Faults
  /\ fault' = <<error>>
  /\ exit' = <<Die(error)>>
  /\ pc' = "done"
  /\ UNCHANGED <<decoders, client, config, request, signal, response, rawResponse,
                 parseCalls, decodeCalls, calls, abortedAt, dispatched, other,
                 facade, genVars>>

\* mutant: after a fault the generator goes on to the dispatcher, with an
\* empty response
TransportFail_fallsThrough(error) ==
  /\ pc \in {"execute", "text"}
  /\ error \in Faults
  /\ fault' = <<error>>
  /\ exit' = <<createDispatcher(config[1].dispatcher,
                                [status |-> 0, headers |-> <<>>, text |-> ""]).exit>>
  /\ dispatched' = dispatched + 1
  /\ pc' = "done"
  /\ UNCHANGED <<decoders, client, config, request, signal, response, rawResponse,
                 parseCalls, decodeCalls, calls, abortedAt, other, facade, genVars>>

\* client.execute or response.text fails, the fetch promise rejects: the
\* fault is mapped to a TransportError, which ends the call
TransportFail(error) ==
  /\ pc \in {"execute", "text"}
  /\ error \in Faults
  /\ fault' = <<error>>
  /\ exit' = <<FailWith(toTransportError(error))>>
  /\ pc' = "done"
  /\ UNCHANGED <<decoders, client, config, request, signal, response, rawResponse,
                 parseCalls, decodeCalls, calls, abortedAt, dispatched, other,
                 facade, genVars>>

\* the caller triggers the signal it passed, while the call is in progress
Abort(reason) ==
  /\ pc \in {"execute", "text", "dispatch"}
  /\ signal = <<NotAborted>>
  /\ signal' = <<Aborted(reason)>>
  /\ abortedAt' = pc
  /\ UNCHANGED <<decoders, client, pc, config, request, response, rawResponse, exit,
                 parseCalls, decodeCalls, calls, fault, dispatched, other, facade, genVars>>

\* mutant: the dispatcher is skipped when the signal has been triggered
Classify_checksSignal ==
  /\ pc = "dispatch"
  /\ LET r == IF signal # <<>> /\ signal[1].aborted
              THEN Traced(FailWith(toTransportError(signal[1].reason)), 0, <<>>)
              ELSE createDispatcher(config[1].dispatcher, rawResponse[1])
     IN  /\ exit' = <<r.exit>>
         /\ parseCalls' = r.parses
         /\ decodeCalls' = r.decodes
  /\ dispatched' = IF signal # <<>> /\ signal[1].aborted THEN dispatched
                   ELSE dispatched + 1
  /\ pc' = "done"
  /\ UNCHANGED <<decoders, client, config, request, signal, response, rawResponse, calls,
                 fault, abortedAt, other, facade, genVars>>

\* mutant: the content-type test keeps a position between calls (a global
\* regular expression), so every second call sees no match
Classify_statefulMatch ==
  /\ pc = "dispatch"
  /\ LET r == createDispatcher(config[1].dispatcher,
                               IF calls % 2 = 0
                               THEN [rawResponse[1] EXCEPT !.headers = <<>>]
                               ELSE rawResponse[1])
     IN  /\ exit' = <<r.exit>>
         /\ parseCalls' = r.parses
         /\ decodeCalls' = r.decodes
  /\ dispatched' = dispatched + 1
  /\ pc' = "done"
  /\ UNCHANGED <<decoders, client, config, request, signal, response, rawResponse, calls,
                 fault, abortedAt, other, facade, genVars>>

\* the dispatcher classifies the RawResponse
Classify ==
  /\ pc = "dispatch"
  /\ LET r == Dispatcher(config[1].dispatcher, rawResponse[1])
     IN  /\ exit' = <<r.exit>>
         /\ parseCalls' = r.parses
         /\ decodeCalls' = r.decodes
  /\ dispatched' = dispatched + 1
  /\ pc' = "done"
  /\ UNCHANGED <<decoders, client, config, request, signal, response, rawResponse, calls,
                 fault, abortedAt, other, facade, genVars>>

Next ==
  \/ \E op \in Operations, sig \in Signals : executeRequest(op, sig)
  \/ \E status \in Statuses, headers \in HeaderSets : ExecuteOk(status, headers)
  \/ \E text \in BodyTexts : TextOk(text)
  \/ \E error \in TransportFaults : TransportFail(error)
  \/ \E reason \in AbortReasons : Abort(reason)
  \/ Classify

Spec == Init /\ [][Next]_vars

(***************************************************************************)
(* executeRequest with the dispatchers of the transport tests: a           *)
(* dispatcher that succeeds for every response, and a generated one.       *)
(***************************************************************************)
TestDispatchers == {"succeedAlways", "listPets"}

TestStatuses == {200, 418}

TestHeaderSets == {<<>>, [n \in {"content-type"} |-> "application/json"]}

TestBodyTexts == {"[]", "{\"bad\": json}"}

\* executeRequest({ method: "get", url, dispatcher })
executeTest(dispatcher) ==
  /\ Start([method |-> "get", url |-> "https://api.example.com/test",
            dispatcher |-> dispatcher], <<>>)
  /\ UNCHANGED facade

TestNext ==
  \/ \E dispatcher \in TestDispatchers : executeTest(dispatcher)
  \/ \E status \in TestStatuses, headers \in TestHeaderSets :
       ExecuteOk(status, headers)
  \/ \E text \in TestBodyTexts : TextOk(text)
  \/ \E error \in TransportFaults : TransportFail(error)
  \/ Classify

TestSpec == Init /\ [][TestNext]_vars

(***************************************************************************)
(* executeRequest with every method of HttpMethod, with and without        *)
(* headers and body.                                                       *)
(***************************************************************************)
RequestHeaders == [n \in {"x-api-key"} |-> "secret"]

RequestBody == "{\"name\":\"Rex\"}"

RequestConfigs ==
  [method : HttpMethods, url : {"https://api.example.com/pets"},
   dispatcher : {"succeedAlways"}]
  \cup [method : HttpMethods, url : {"https://api.example.com/pets"},
        dispatcher : {"succeedAlways"}, headers : {RequestHeaders}]
  \cup [method : HttpMethods, url : {"https://api.example.com/pets"},
        dispatcher : {"succeedAlways"}, body : {RequestBody}]
  \cup [method : HttpMethods, url : {"https://api.example.com/pets"},
        dispatcher : {"succeedAlways"}, headers : {RequestHeaders},
        body : {RequestBody}]

\* executeRequest(config)
executeConfigured(cfg) ==
  /\ Start(cfg, <<>>)
  /\ UNCHANGED facade

RequestNext ==
  \/ \E cfg \in RequestConfigs : executeConfigured(cfg)
  \/ \E status \in TestStatuses, headers \in TestHeaderSets :
       ExecuteOk(status, headers)
  \/ \E text \in TestBodyTexts : TextOk(text)
  \/ \E error \in TransportFaults : TransportFail(error)
  \/ Classify

RequestSpec == Init /\ [][RequestNext]_vars

(***************************************************************************)
(* createStrictClient: the facade.  A path template, a base URL and the    *)
(* keys of params and query are ASCII texts; a parameter value is a number *)
(* or a string, and a string value is the sequence of its UTF-16 code      *)
(* units, so that values outside ASCII and unpaired surrogates exist.      *)
(* params and query are the sequences of their [key, value] entries in the *)
(* order of Object.entries, <<>> when the option is undefined.             *)
(***************************************************************************)
\* the characters of code 32 to 95 and of code 97 to 126, in order; the
\* grave accent (96) is in no text of the model
AsciiLow ==
  " !\"#$%&'()*+,-./0123456789:;<=>?@ABCDEFGHIJKLMNOPQRSTUVWXYZ[\\]^_"

AsciiHigh == "abcdefghijklmnopqrstuvwxyz{|}~"

AsciiCodes == (32..126) \ {96}

AsciiChar(k) ==
  IF k < 96 THEN CharAt(AsciiLow, k - 31) ELSE CharAt(AsciiHigh, k - 96)

CodeOf(ch) == CHOOSE k \in AsciiCodes : AsciiChar(k) = ch

\* the code units of an ASCII text
CodeUnits(s) == [i \in 1..Len(s) |-> CodeOf(CharAt(s, i))]

Num(n) == [num |-> n]

Str(units) == [units |-> units]

\* String(value)
StringOf(value) ==
  IF "num" \in DOMAIN value THEN CodeUnits(ToString(value.num)) ELSE value.units

HighSurrogates == 55296..56319

LowSurrogates == 56320..57343

\* the code point of a surrogate pair
PairCodePoint(hi, lo) == (hi - 55296) * 1024 + (lo - 56320) + 65536

ReplacementCharacter == 65533

\* the UTF-8 bytes of a code point
UTF8(cp) ==
  IF cp < 128 THEN <<cp>>
  ELSE IF cp < 2048 THEN <<192 + (cp \div 64), 128 + (cp % 64)>>
  ELSE IF cp < 65536
  THEN <<224 + (cp \div 4096), 128 + ((cp \div 64) % 64), 128 + (cp % 64)>>
  ELSE <<240 + (cp \div 262144), 128 + ((cp \div 4096) % 64),
         128 + ((cp \div 64) % 64), 128 + (cp % 64)>>

HexDigits == "0123456789ABCDEF"

PercentByte(b) ==
  "%" \o CharAt(HexDigits, (b \div 16) + 1) \o CharAt(HexDigits, (b % 16) + 1)

RECURSIVE PercentBytes(_)
PercentBytes(bytes) ==
  IF bytes = <<>> THEN ""
  ELSE PercentByte(Head(bytes)) \o PercentBytes(Tail(bytes))

\* the characters encodeURIComponent leaves as they are
UriUnreserved ==
  "ABCDEFGHIJKLMNOPQRSTUVWXYZabcdefghijklmnopqrstuvwxyz0123456789-_.!~*'()"

\* the characters the application/x-www-form-urlencoded serializer leaves
FormUnreserved ==
  "ABCDEFGHIJKLMNOPQRSTUVWXYZabcdefghijklmnopqrstuvwxyz0123456789*-._"

IsIn(k, chars) == k \in AsciiCodes /\ Includes(chars, AsciiChar(k))

\* encodeURIComponent from unit i on: the text, or a thrown URIError
RECURSIVE Encode(_, _, _)
Encode(units, i, acc) ==
  IF i > Len(units) THEN [ok |-> TRUE, val |-> acc]
  ELSE IF IsIn(units[i], UriUnreserved)
  THEN Encode(units, i + 1, acc \o AsciiChar(units[i]))
  ELSE IF units[i] \in LowSurrogates THEN [ok |-> FALSE]
  ELSE IF units[i] \in HighSurrogates
  THEN IF i < Len(units) /\ units[i + 1] \in LowSurrogates
       THEN Encode(units, i + 2,
                   acc \o PercentBytes(UTF8(PairCodePoint(units[i], units[i + 1]))))
       ELSE [ok |-> FALSE]
  ELSE Encode(units, i + 1, acc \o PercentBytes(UTF8(units[i])))

encodeURIComponent(units) == Encode(units, 1, "")

\* URLSearchParams: a string becomes a USVString (an unpaired surrogate
\* becomes U+FFFD), then the form serializer writes "+" for a space and
\* percent-encodes the UTF-8 bytes of what it does not leave
RECURSIVE FormEncode(_, _, _)
FormEncode(units, i, acc) ==
  IF i > Len(units) THEN acc
  ELSE IF units[i] = 32 THEN FormEncode(units, i + 1, acc \o "+")
  ELSE IF IsIn(units[i], FormUnreserved)
  THEN FormEncode(units, i + 1, acc \o AsciiChar(units[i]))
  ELSE IF units[i] \in HighSurrogates /\ i < Len(units)
          /\ units[i + 1] \in LowSurrogates
  THEN FormEncode(units, i + 2,
                  acc \o PercentBytes(UTF8(PairCodePoint(units[i], units[i + 1]))))
  ELSE IF units[i] \in HighSurrogates \cup LowSurrogates
  THEN FormEncode(units, i + 1, acc \o PercentBytes(UTF8(ReplacementCharacter)))
  ELSE FormEncode(units, i + 1, acc \o PercentBytes(UTF8(units[i])))

\* params.append for each entry, then params.toString()
RECURSIVE URLSearchParamsToString(_, _)
URLSearchParamsToString(entries, i) ==
  IF i > Len(entries) THEN ""
  ELSE (IF i > 1 THEN "&" ELSE "")
         \o FormEncode(CodeUnits(entries[i][1]), 1, "") \o "="
         \o FormEncode(StringOf(entries[i][2]), 1, "")
         \o URLSearchParamsToString(entries, i + 1)

\* first position of pat in s from i on, 0 when there is none
RECURSIVE IndexOf(_, _, _)
IndexOf(s, pat, i) ==
  IF i + Len(pat) - 1 > Len(s) THEN 0
  ELSE IF HasAt(s, i, pat) THEN i
  ELSE IndexOf(s, pat, i + 1)

\* s with the window of length n at position at replaced by rep
Splice(s, at, n, rep) ==
  IF at = 0 THEN s
  ELSE SubSeq(s, 1, at - 1) \o rep \o SubSeq(s, at + n, Len(s))

\* String.prototype.replace with a string pattern: the first occurrence
StringReplace(s, pat, rep) == Splice(s, IndexOf(s, pat, 1), Len(pat), rep)

\* one turn of the loop over Object.entries(options.params)
ReplaceParam(url, key, encoded) ==
  IF encoded.ok
  THEN [ok |-> TRUE, val |-> StringReplace(url, "{" \o key \o "}", encoded.val)]
  ELSE [ok |-> FALSE]

\* the loop over Object.entries(options.params), from entry i on
RECURSIVE ReplaceParams(_, _, _)
ReplaceParams(r, entries, i) ==
  IF ~r.ok \/ i > Len(entries) THEN r
  ELSE ReplaceParams(ReplaceParam(r.val, entries[i][1],
                                  encodeURIComponent(StringOf(entries[i][2]))),
                     entries, i + 1)

\* "Add query parameters"
AddQuery(r, query) ==
  IF ~r.ok \/ query = <<>> THEN r
  ELSE [ok |-> TRUE,
        val |-> r.val \o "?" \o URLSearchParamsToString(query[1], 1)]

\* the url makeRequest builds, or the URIError it throws
makeUrl(path, options) ==
  AddQuery(ReplaceParams([ok |-> TRUE, val |-> options.baseUrl \o path],
                         IF options.params = <<>> THEN <<>> ELSE options.params[1],
                         1),
           options.query)

FacadeMethods == {"get", "post", "put", "patch", "delete"}

PathTemplates ==
  {"/pets", "/pets/{petId}", "/owners/{ownerId}/pets/{petId}",
   "/pets/{petId}/twins/{petId}"}

ParamSets ==
  {<<>>,
   << <<>> >>,
   << << <<"petId", Num(42)>> >> >>,
   << << <<"petId", Str(CodeUnits("a b/c"))>> >> >>,
   << << <<"petId", Str(<<233>>)>> >> >>,
   << << <<"petId", Str(<<55357, 56832>>)>> >> >>,
   << << <<"petId", Str(<<55296>>)>> >> >>,
   << << <<"ownerId", Num(7)>>, <<"petId", Str(CodeUnits("x{ownerId}"))>> >> >>}

QuerySets ==
  {<<>>,
   << <<>> >>,
   << << <<"limit", Num(10)>> >> >>,
   << << <<"q", Str(CodeUnits("a b"))>>, <<"tag", Str(CodeUnits("x&y=z"))>> >> >>,
   << << <<"q", Str(<<56320, 8364>>)>> >> >>}

FacadeOptions ==
  [baseUrl : {"https://api.example.com"}, params : ParamSets, query : QuerySets,
   dispatcher : {"getPet", "deletePet"}, signal : {<<>>}]

\* a facade method is called: makeRequest builds the url, which may throw,
\* and returns executeRequest(config)
makeRequest(method, path, options) ==
  /\ pc = "idle"
  /\ facade = <<>>
  /\ facade' = <<[method |-> method, path |-> path, options |-> options,
                 threw |-> ~makeUrl(path, options).ok]>>
  /\ IF makeUrl(path, options).ok
     THEN Start([method |-> method, url |-> makeUrl(path, options).val,
                 dispatcher |-> options.dispatcher], options.signal)
     ELSE UNCHANGED <<decoders, client, callVars, other, genVars>>

\* the responses and body texts of the facade's calls
FacadeStatuses == {200, 404}

FacadeHeaderSets == {<<>>, [n \in {"content-type"} |-> "application/json"]}

FacadeBodyTexts == {"[]", "{\"bad\": json}"}

FacadeNext ==
  \/ \E method \in FacadeMethods, path \in PathTemplates, options \in FacadeOptions :
       makeRequest(method, path, options)
  \/ \E status \in FacadeStatuses, headers \in FacadeHeaderSets :
       ExecuteOk(status, headers)
  \/ \E text \in FacadeBodyTexts : TextOk(text)
  \/ \E error \in TransportFaults : TransportFail(error)
  \/ Classify

FacadeSpec == Init /\ [][FacadeNext]_vars

(***************************************************************************)
(* Two calls in flight at the same time.  The second call runs the same    *)
(* executeRequest; its state is the record in other.  The steps of the two *)
(* calls interleave in every order.                                        *)
(***************************************************************************)
\* the second call starts while the first is at any position
OtherStart(op) ==
  /\ other = <<>>
  /\ other' = <<[pc |-> "execute", startedAt |-> pc,
                 config |-> [method |-> MethodOf(op),
                             url |-> "https://api.example.com/test",
                             dispatcher |-> op],
                 response |-> <<>>, rawResponse |-> <<>>, exit |-> <<>>,
                 fault |-> <<>>]>>
  /\ UNCHANGED <<decoders, client, callVars, facade, genVars>>

OtherExecuteOk(status, headers) ==
  /\ other # <<>>
  /\ other[1].pc = "execute"
  /\ other' = <<[other[1] EXCEPT !.pc = "text",
                                 !.response = <<[status |-> status,
                                                 headers |-> headers]>>]>>
  /\ UNCHANGED <<decoders, client, callVars, facade, genVars>>

OtherTextOk(text) ==
  /\ other # <<>>
  /\ other[1].pc = "text"
  /\ other' = <<[other[1] EXCEPT !.pc = "dispatch",
                                 !.rawResponse =
                                    <<[status |-> other[1].response[1].status,
                                       headers |-> other[1].response[1].headers,
                                       text |-> text]>>]>>
  /\ UNCHANGED <<decoders, client, callVars, facade, genVars>>

OtherTransportFail(error) ==
  /\ other # <<>>
  /\ other[1].pc \in {"execute", "text"}
  /\ error \in FaultsAt(other[1].pc, <<>>)
  /\ other' = <<[other[1] EXCEPT !.pc = "done", !.fault = <<error>>,
                                 !.exit = <<FailWith(toTransportError(error))>>]>>
  /\ UNCHANGED <<decoders, client, callVars, facade, genVars>>

\* mutant: the dispatcher reads a response slot the calls share
OtherClassify_sharedResponse ==
  /\ other # <<>>
  /\ other[1].pc = "dispatch"
  /\ other' = <<[other[1] EXCEPT
                   !.pc = "done",
                   !.exit = <<createDispatcher(
                                other[1].config.dispatcher,
                                IF rawResponse # <<>> THEN rawResponse[1]
                                ELSE other[1].rawResponse[1]).exit>>]>>
  /\ UNCHANGED <<decoders, client, callVars, facade, genVars>>

OtherClassify ==
  /\ other # <<>>
  /\ other[1].pc = "dispatch"
  /\ other' = <<[other[1] EXCEPT
                   !.pc = "done",
                   !.exit = <<Dispatcher(other[1].config.dispatcher,
                                         other[1].rawResponse[1]).exit>>]>>
  /\ UNCHANGED <<decoders, client, callVars, facade, genVars>>

\* the operations, responses and body texts of the concurrent calls
ConcOperations == {"listPets", "getPet"}

ConcStatuses == {200, 404}

ConcHeaderSets == {<<>>, [n \in {"content-type"} |-> "application/json"]}

ConcBodyTexts == {"{\"id\":\"1\",\"name\":\"Fluffy\"}", "{\"bad\": json}"}

ConcNext ==
  \/ \E op \in ConcOperations : executeRequest(op, <<>>)
  \/ \E status \in ConcStatuses, headers \in ConcHeaderSets :
       ExecuteOk(status, headers)
  \/ \E text \in ConcBodyTexts : TextOk(text)
  \/ \E error \in TransportFaults : TransportFail(error)
  \/ Classify
  \/ \E op \in ConcOperations : OtherStart(op)
  \/ \E status \in ConcStatuses, headers \in ConcHeaderSets :
       OtherExecuteOk(status, headers)
  \/ \E text \in ConcBodyTexts : OtherTextOk(text)
  \/ \E error \in TransportFaults : OtherTransportFail(error)
  \/ OtherClassify

ConcSpec == Init /\ [][ConcNext]_vars

(***************************************************************************)
(* Vocabulary of the properties                                            *)
(***************************************************************************)
\* the call has ended after its RawResponse was classified
Classified == pc = "done" /\ rawResponse # <<>>

TheOp == config[1].dispatcher

TheStatus == rawResponse[1].status

TheText == rawResponse[1].text

\* the response's content-type header value, <<>> when the header is absent
TheContentType ==
  IF "content-type" \in DOMAIN rawResponse[1].headers
  THEN <<rawResponse[1].headers["content-type"]>> ELSE <<>>

TheExit == exit[1]

Declared == TheStatus \in DOMAIN Schema(TheOp)

\* content types declared for the response's status
DeclaredTypes == Schema(TheOp)[TheStatus]

LowerChar(c) ==
  IF \E k \in 1..26 : CharAt(UpperCase, k) = c
  THEN CharAt(LowerCase, CHOOSE k \in 1..26 : CharAt(UpperCase, k) = c)
  ELSE c

RECURSIVE ToLower(_)
ToLower(s) ==
  IF Len(s) = 0 THEN "" ELSE LowerChar(CharAt(s, 1)) \o ToLower(SubSeq(s, 2, Len(s)))

RECURSIVE Trim(_)
Trim(s) ==
  IF Len(s) > 0 /\ CharAt(s, 1) = " " THEN Trim(SubSeq(s, 2, Len(s)))
  ELSE IF Len(s) > 0 /\ CharAt(s, Len(s)) = " " THEN Trim(SubSeq(s, 1, Len(s) - 1))
  ELSE s

\* the header value up to its first ";": the media type without parameters
RECURSIVE StripParameters(_, _)
StripParameters(s, i) ==
  IF i > Len(s) THEN s
  ELSE IF CharAt(s, i) = ";" THEN SubSeq(s, 1, i - 1)
  ELSE StripParameters(s, i + 1)

BaseMediaType(v) == ToLower(Trim(StripParameters(v, 1)))

\* the response's content type is the declared type ct: same base media
\* type, letter case and parameters ignored
IsMediaType(contentType, ct) ==
  /\ Len(contentType) = 1
  /\ BaseMediaType(contentType[1]) = ToLower(ct)

\* the declared content types the response's content type matches
MatchedTypes ==
  {ct \in {DeclaredTypes[n] : n \in 1..Len(DeclaredTypes)} :
     IsMediaType(TheContentType, ct)}

IsError(tag) == TheExit.channel = "Left" /\ TheExit.value._tag = tag

\* SuccessVariants: the statuses the response types count as 2xx
SuccessStatuses == (200..208) \cup {226}

\* the Outcome variant an exit of executeRequest is
OutcomeKind(e) ==
  IF e.channel = "Die" THEN "Defect"
  ELSE IF "_tag" \in DOMAIN e.value THEN e.value._tag
  ELSE IF e.value.status \in SuccessStatuses THEN "Success"
  ELSE "HttpError"

ClassifierOutcomes ==
  {"Success", "HttpError", "UnexpectedStatus", "UnexpectedContentType",
   "ParseError", "DecodeError"}

(***************************************************************************)
(* The response types (strict-types) of an operation.  Responses maps each *)
(* declared status to the content types of its content object, <<>> for a  *)
(* response declared without content.  A variant is one (status, content   *)
(* type) pair of the union the conditional types distribute over.          *)
(***************************************************************************)
StatusCodes(Responses) == DOMAIN Responses

ContentTypesFor(Responses, Status) ==
  IF Responses[Status] = <<>> THEN {"none"}
  ELSE {Responses[Status][n] : n \in 1..Len(Responses[Status])}

ResponseVariant(Status, ContentType) ==
  [status |-> Status, contentType |-> ContentType]

AllResponseVariants(Responses) ==
  {ResponseVariant(pair[1], pair[2]) :
     pair \in {p \in StatusCodes(Responses) \X {"none", "application/json"} :
                 p[2] \in ContentTypesFor(Responses, p[1])}}

SuccessVariants(Responses) ==
  {V \in AllResponseVariants(Responses) : V.status \in SuccessStatuses}

HttpErrorVariants(Responses) ==
  {V \in AllResponseVariants(Responses) : V.status \notin SuccessStatuses}

\* the statuses an operation may declare, and the declarations of a status
TypeStatuses == {200, 204, 226, 250, 299, 404, 500}

ResponseSets ==
  UNION {[S -> {<<>>, <<"application/json">>}] : S \in SUBSET TypeStatuses}

\* the types ApiSuccess<Responses> and HttpErrorVariants<Responses> are
\* computed for an operation; a behaviour has one computation, of the types
\* or of the generator
ResponseTypes(Responses) ==
  /\ pc = "idle"
  /\ variants = <<>>
  /\ generated = <<>>
  /\ variants' = <<[responses |-> Responses,
                   success |-> SuccessVariants(Responses),
                   httpError |-> HttpErrorVariants(Responses)]>>
  /\ UNCHANGED <<decoders, client, callVars, other, facade, generated>>

(***************************************************************************)
(* The generator.  A schema document is the sequence of its operations in  *)
(* the order of Object.entries over paths and methods; the responses of an *)
(* operation are the sequence of their [status, content types] entries.    *)
(* The dispatch file is the sequence of its dispatchers, each with one     *)
(* status handler per case of its switch; the decoders file is the         *)
(* sequence of its exported decoders, each with the operation, status and  *)
(* content type its doc comment names.                                     *)
(***************************************************************************)
Alphanumeric == "ABCDEFGHIJKLMNOPQRSTUVWXYZabcdefghijklmnopqrstuvwxyz0123456789"

\* s.replace(/[^a-zA-Z0-9]/g, "_")
RECURSIVE ReplaceNonAlphanumeric(_)
ReplaceNonAlphanumeric(s) ==
  IF Len(s) = 0 THEN ""
  ELSE (IF Includes(Alphanumeric, CharAt(s, 1)) THEN CharAt(s, 1) ELSE "_")
         \o ReplaceNonAlphanumeric(SubSeq(s, 2, Len(s)))

operationIdOf(method, pathKey, operation) ==
  IF operation.operationId # <<>> THEN operation.operationId[1]
  ELSE method \o ReplaceNonAlphanumeric(pathKey)

\* mutant: the decoder's name always carries the content type
decoderName_withContentType(operationId, status, contentTypes, ct) ==
  "decode" \o operationId \o "_" \o status \o "_" \o ReplaceNonAlphanumeric(ct)

\* the decoder's name as generateDecodersFile writes it
decoderName(operationId, status, contentTypes, ct) ==
  IF Len(contentTypes) = 1
  THEN "decode" \o operationId \o "_" \o status
  ELSE "decode" \o operationId \o "_" \o status \o "_" \o ReplaceNonAlphanumeric(ct)

\* the test of one content type and what its branch does
ctCase(operationId, status, contentTypes, ct) ==
  [contentType |-> ct,
   ctCheck |-> IF ct = "application/json" THEN "includes" ELSE "equals",
   decoder |-> IF Len(contentTypes) = 1
               THEN "decode" \o operationId \o "_" \o status
               ELSE "decode" \o operationId \o "_" \o status \o "_"
                      \o ReplaceNonAlphanumeric(ct)]

\* one "case status:" of the switch
statusHandler(operationId, status, contentTypes) ==
  [status |-> status,
   ctCases |-> [n \in 1..Len(contentTypes) |->
                  ctCase(operationId, status, contentTypes, contentTypes[n])],
   expected |-> contentTypes]

dispatcherOf(operationId, responses) ==
  [name |-> "dispatcher" \o operationId,
   operationId |-> operationId,
   statusHandlers |-> [n \in 1..Len(responses) |->
                         statusHandler(operationId, responses[n][1], responses[n][2])]]

generateDispatchFile(spec) ==
  [n \in 1..Len(spec) |->
     dispatcherOf(operationIdOf(spec[n].method, spec[n].path, spec[n]),
                  spec[n].responses)]

\* the decoders of one response: none when it has no content
decodersOfResponse(operationId, status, contentTypes) ==
  [n \in 1..Len(contentTypes) |->
     [name |-> decoderName(operationId, status, contentTypes, contentTypes[n]),
      operationId |-> operationId, status |-> status,
      contentType |-> contentTypes[n]]]

RECURSIVE decodersOfOperation(_, _, _)
decodersOfOperation(operationId, responses, n) ==
  IF n > Len(responses) THEN <<>>
  ELSE decodersOfResponse(operationId, responses[n][1], responses[n][2])
         \o decodersOfOperation(operationId, responses, n + 1)

RECURSIVE generateDecodersFile(_, _)
generateDecodersFile(spec, n) ==
  IF n > Len(spec) THEN <<>>
  ELSE decodersOfOperation(operationIdOf(spec[n].method, spec[n].path, spec[n]),
                           spec[n].responses, 1)
         \o generateDecodersFile(spec, n + 1)

\* tests/fixtures/petstore.openapi.json, as the generated files show it
Petstore ==
  <<[path |-> "/pets", method |-> "get", operationId |-> <<"listPets">>,
     responses |-> << <<"200", Json>>, <<"500", Json>> >>],
    [path |-> "/pets", method |-> "post", operationId |-> <<"createPet">>,
     responses |-> << <<"201", Json>>, <<"400", Json>>, <<"500", Json>> >>],
    [path |-> "/pets/{petId}", method |-> "get", operationId |-> <<"getPet">>,
     responses |-> << <<"200", Json>>, <<"404", Json>>, <<"500", Json>> >>],
    [path |-> "/pets/{petId}", method |-> "delete", operationId |-> <<"deletePet">>,
     responses |-> << <<"204", <<>> >>, <<"404", Json>>, <<"500", Json>> >>]>>

\* responses objects of other schema documents
ResponsesObjects ==
  {<< <<"200", Json>> >>,
   << <<"204", <<>> >> >>,
   << <<"200", <<"application/json", "text/plain">> >>, <<"404", <<"text/plain">> >> >>,
   << <<"202", <<>> >>, <<"200", <<"application/xml", "application/json">> >>,
      <<"500", Json>> >>}

OperationSpecs ==
  [path : {"/pets", "/pets/{petId}"}, method : {"get", "delete"},
   operationId : {<<>>}, responses : ResponsesObjects]
  \cup [path : {"/owners"}, method : {"put"}, operationId : {<<"putOwner">>},
        responses : ResponsesObjects]

\* a document has one operation per path and method, and no two
\* operations of one id
SchemaDocuments ==
  {Petstore}
    \cup {<<a>> : a \in OperationSpecs}
    \cup {<<pair[1], pair[2]>> :
            pair \in {p \in OperationSpecs \X OperationSpecs :
                        <<p[1].path, p[1].method>> # <<p[2].path, p[2].method>>}}

\* the generator runs on a schema document and writes both files
generate(spec) ==
  /\ pc = "idle"
  /\ generated = <<>>
  /\ variants = <<>>
  /\ generated' = <<[spec |-> spec, dispatch |-> generateDispatchFile(spec),
                    decoders |-> generateDecodersFile(spec, 1)]>>
  /\ UNCHANGED <<decoders, client, callVars, other, facade, variants>>

GenNext ==
  \/ \E Responses \in ResponseSets : ResponseTypes(Responses)
  \/ \E spec \in SchemaDocuments : generate(spec)

GenSpec == Init /\ [][GenNext]_vars

(***************************************************************************)
(* Properties                                                              *)
(***************************************************************************)

\* C1: every RawResponse is classified into exactly one Outcome, which is
\* Success, HttpError, UnexpectedStatus, UnexpectedContentType, ParseError
\* or DecodeError; no response is left without an outcome or ends as a
\* defect.
C1_Total ==
  /\ Classified => Len(exit) = 1 /\ OutcomeKind(TheExit) \in ClassifierOutcomes
  /\ pc # "done" => exit = <<>>

\* C1 witness: an undeclared status without content-type header and with a
\* malformed body has been classified
C1_Witness ==
  /\ Classified
  /\ TheStatus = 299
  /\ TheContentType = <<>>
  /\ TheText = "{\"bad\": json}"
  /\ OutcomeKind(TheExit) = "UnexpectedStatus"

\* C2: a status that is not a key of the operation's schema table yields
\* UnexpectedStatus with that status and the body text unchanged, whatever
\* the content type and the body.
C2_UnexpectedStatus ==
  Classified /\ ~Declared =>
    TheExit = [channel |-> "Left",
               value |-> [_tag |-> "UnexpectedStatus", status |-> TheStatus,
                          body |-> TheText]]

\* C2 witness: 404 is not declared for listPets; the response is JSON
C2_Witness ==
  /\ Classified
  /\ TheOp = "listPets"
  /\ TheStatus = 404
  /\ TheContentType = <<"application/json">>
  /\ TheText = "{\"unexpected\": \"field\"}"
  /\ IsError("UnexpectedStatus")

\* the decoder the schema registers for a status of an operation
DecoderFor(op, status) == "decode" \o op \o "_" \o ToString(status)

\* the parsed body, when the body text is well-formed
ParsedBody == JSONparse(TheText)

\* the exit of the registered decoder on the parsed body
DecoderExit(ct) ==
  Decoders(DecoderFor(TheOp, TheStatus), TheStatus, ct, TheText, ParsedBody.val)

\* C3: on a declared status, a response content type that matches none of
\* the declared content types yields UnexpectedContentType with expected =
\* all declared content types of the status, actual = the response's
\* content type, body = the raw body text.
C3_UnexpectedContentType ==
  Classified /\ Declared /\ DeclaredTypes # <<>> /\ MatchedTypes = {} =>
    TheExit = [channel |-> "Left",
               value |-> [_tag |-> "UnexpectedContentType",
                          status |-> TheStatus, expected |-> DeclaredTypes,
                          actual |-> TheContentType, body |-> TheText]]

\* C4: the content type matches exactly when its base media type, without
\* parameters and in any letter case, equals a declared content type: on a
\* declared body-bearing status the outcome is UnexpectedContentType exactly
\* when no declared type matches in that sense.
C4_BaseMediaTypeMatch ==
  Classified /\ Declared /\ DeclaredTypes # <<>> =>
    (IsError("UnexpectedContentType") <=> MatchedTypes = {})

\* C5: an undeclared status yields UnexpectedStatus, and a content-type
\* mismatch on a declared status yields UnexpectedContentType, whatever the
\* body; neither case ends in ParseError or DecodeError.
C5_Priority ==
  Classified =>
    /\ ~Declared => IsError("UnexpectedStatus")
    /\ Declared /\ DeclaredTypes # <<>> /\ MatchedTypes = {} =>
         IsError("UnexpectedContentType")

\* C6: a status declared without body succeeds at once with its status,
\* contentType "none" and an undefined body; JSON.parse is not called and no
\* decoder is invoked.
C6_NoBody ==
  Classified /\ Declared /\ DeclaredTypes = <<>> =>
    /\ TheExit = [channel |-> "Right",
                  value |-> [status |-> TheStatus, contentType |-> "none",
                             body |-> [t |-> "undefined"]]]
    /\ parseCalls = 0
    /\ decodeCalls = <<>>

\* C6 witness: 204 of deletePet arrived with a non-empty malformed body
C6_Witness ==
  /\ Classified
  /\ TheOp = "deletePet"
  /\ TheStatus = 204
  /\ TheText = "{\"bad\": json}"
  /\ TheExit.channel = "Right"
  /\ TheExit.value.contentType = "none"

\* C7: on a declared status with a matched content type, a body text that
\* cannot be parsed yields ParseError with the status, the content type, a
\* cause and the body text verbatim.
C7_ParseError ==
  Classified /\ Declared /\ MatchedTypes # {} /\ ~ParsedBody.ok =>
    /\ IsError("ParseError")
    /\ TheExit.value.status = TheStatus
    /\ TheExit.value.contentType \in MatchedTypes
    /\ TheExit.value.error.isError
    /\ TheExit.value.body = TheText

C9_DeclaredPair ==
  \A ct \in (IF Classified /\ Declared THEN MatchedTypes ELSE {}) :
    ParsedBody.ok /\ DecoderExit(ct).channel = "Right" =>
      /\ OutcomeKind(TheExit) =
           (IF TheStatus \in 200..299 THEN "Success" ELSE "HttpError")
      /\ TheExit.value = [status |-> TheStatus, contentType |-> ct,
                          body |-> DecoderExit(ct).value]

\* C10: the success channel delivers only 2xx responses; a declared non-2xx
\* response and every boundary error are delivered in the failure channel.
C10_Channels ==
  pc = "done" =>
    /\ TheExit.channel = "Right" => TheExit.value.status \in 200..299
    /\ OutcomeKind(TheExit) \in (ClassifierOutcomes \cup {"TransportError"}) \ {"Success"}
         => TheExit.channel = "Left"

C12_TransportError ==
  /\ fault # <<>> =>
       /\ pc = "done"
       /\ rawResponse = <<>>
       /\ TheExit.channel = "Left"
       /\ OutcomeKind(TheExit) = "TransportError"
  /\ pc = "done" /\ fault = <<>> =>
       /\ Classified
       /\ OutcomeKind(TheExit) # "TransportError"

\* C12 witness: reading the body text failed after the response arrived
C12_Witness ==
  /\ pc = "done"
  /\ response # <<>>
  /\ fault = <<ResponseError(NetworkError)>>
  /\ IsError("TransportError")

\* the request was aborted: the fault is the abort's reason or carries it
IsCancellation(f) ==
  \/ f \in AbortReasons
  \/ "cause" \in DOMAIN f /\ f.cause \in AbortReasons

\* what a TransportError is to hold for a fault: the fault when it is an
\* Error, else a new Error of its string form
Attached(f) == IF f.isError THEN f ELSE NewError(f.name)

\* C14: when the signal is triggered while the transport step is pending,
\* the transport produces no response any more, the call can end at once
\* with the fault of the abort, and when it has ended its exit is a
\* TransportError, never a classified response.
C14_CancelEndsTransport ==
  abortedAt \in {"execute", "text"} =>
    /\ rawResponse = <<>>
    /\ abortedAt = "execute" => response = <<>>
    /\ pc = "done" => IsError("TransportError")
    /\ pc # "done" => ENABLED (\E e \in AbortReasons : TransportFail(e))

\* C15: the TransportError's error field is the fault itself when the fault
\* is an Error, else a new Error of the fault's string form; the attached
\* error of an aborted request differs from the attached error of every
\* fault that is no abort, and the other way round.
C15_CauseAttached ==
  fault # <<>> =>
    /\ TheExit = [channel |-> "Left",
                  value |-> [_tag |-> "TransportError",
                             error |-> Attached(fault[1])]]
    /\ \A g \in TransportFaults :
         IsCancellation(g) # IsCancellation(fault[1]) =>
           TheExit.value.error # Attached(g)

\* C15 witness: the fetch client was aborted with a reason that is no Error
C15_Witness ==
  /\ client = "fetch"
  /\ abortedAt = "execute"
  /\ fault = <<[name |-> "timeout", isError |-> FALSE]>>
  /\ IsError("TransportError")
  /\ TheExit.value.error.name = "Error"

\* C16: a signal triggered after the RawResponse exists changes nothing:
\* the step the call takes next is the classification, which ends the call
\* with the dispatcher's exit for that RawResponse, the exit of the call
\* without cancellation.
C16_CancelAfterResponse ==
  [][abortedAt = "dispatch" /\ pc = "dispatch" =>
       /\ pc' = "done"
       /\ rawResponse' = rawResponse
       /\ exit' = <<createDispatcher(TheOp, rawResponse[1]).exit>>
       /\ OutcomeKind(exit'[1]) \in ClassifierOutcomes]_vars

\* C16 witness: the fetch client's signal was triggered between the arrival
\* of the body text and the classification, which ended in a success
C16_Witness ==
  /\ client = "fetch"
  /\ abortedAt = "dispatch"
  /\ pc = "done"
  /\ signal[1].aborted
  /\ TheExit.channel = "Right"

\* C13: every call of a facade method yields an Outcome: building the url
\* and the request throws for no path template, parameter values and query
\* values, and a call that has ended has ended with a success, a schema
\* error or a boundary error, never with a defect.
C13_FacadeTotal ==
  facade # <<>> =>
    /\ ~facade[1].threw
    /\ pc # "idle"
    /\ pc = "done" =>
         OutcomeKind(TheExit) \in ClassifierOutcomes \cup {"TransportError"}

\* percent-encoding of a string: the unreserved characters stay, every
\* other character becomes the %XX of its UTF-8 bytes (U+FFFD for an
\* unpaired surrogate, which has no UTF-8 form)
RECURSIVE PercentEncode(_, _, _)
PercentEncode(units, i, acc) ==
  IF i > Len(units) THEN acc
  ELSE IF IsIn(units[i], UriUnreserved)
  THEN PercentEncode(units, i + 1, acc \o AsciiChar(units[i]))
  ELSE IF units[i] \in HighSurrogates /\ i < Len(units)
          /\ units[i + 1] \in LowSurrogates
  THEN PercentEncode(units, i + 2,
                     acc \o PercentBytes(UTF8(PairCodePoint(units[i], units[i + 1]))))
  ELSE IF units[i] \in HighSurrogates \cup LowSurrogates
  THEN PercentEncode(units, i + 1, acc \o PercentBytes(UTF8(ReplacementCharacter)))
  ELSE PercentEncode(units, i + 1, acc \o PercentBytes(UTF8(units[i])))

\* s with every occurrence of pat from position i on replaced by rep
RECURSIVE ReplaceAll(_, _, _, _)
ReplaceAll(s, pat, rep, i) ==
  IF IndexOf(s, pat, i) = 0 THEN s
  ELSE ReplaceAll(Splice(s, IndexOf(s, pat, i), Len(pat), rep), pat, rep,
                  IndexOf(s, pat, i) + Len(rep))

\* the path template with every placeholder of the entries from i on filled
RECURSIVE Substituted(_, _, _)
Substituted(path, entries, i) ==
  IF i > Len(entries) THEN path
  ELSE Substituted(ReplaceAll(path, "{" \o entries[i][1] \o "}",
                              PercentEncode(StringOf(entries[i][2]), 1, ""), 1),
                   entries, i + 1)

\* the percent-encoded key=value pairs of the entries from i on, in order
RECURSIVE QueryPairs(_, _)
QueryPairs(entries, i) ==
  IF i > Len(entries) THEN ""
  ELSE (IF i > 1 THEN "&" ELSE "")
         \o PercentEncode(CodeUnits(entries[i][1]), 1, "") \o "="
         \o PercentEncode(StringOf(entries[i][2]), 1, "")
         \o QueryPairs(entries, i + 1)

\* the final URL of a facade call as the property describes it
FinalUrl(f) ==
  f.options.baseUrl
    \o Substituted(f.path,
                   IF f.options.params = <<>> THEN <<>> ELSE f.options.params[1], 1)
    \o (IF f.options.query = <<>> THEN ""
        ELSE "?" \o QueryPairs(f.options.query[1], 1))

\* C20: the url of the request is the base URL, then the path template with
\* every occurrence of the placeholder of each supplied path parameter
\* replaced by the percent-encoded string form of its value, then, when a
\* query is supplied, "?" and the percent-encoded key=value pairs of all
\* query parameters in order.
C20_FinalUrl ==
  facade # <<>> /\ ~facade[1].threw => config[1].url = FinalUrl(facade[1])

\* the second call has ended after its RawResponse was classified
OtherClassified ==
  other # <<>> /\ other[1].pc = "done" /\ other[1].rawResponse # <<>>

RunAlone(cfg, raw, flt) ==
  IF flt # <<>> THEN FailWith(toTransportError(flt[1]))
  ELSE createDispatcher(cfg.dispatcher, raw[1]).exit

\* every call that has ended has the exit it has when it runs alone
Independent ==
  /\ pc = "done" => exit = <<RunAlone(config[1], rawResponse, fault)>>
  /\ other # <<>> /\ other[1].pc = "done" =>
       other[1].exit = <<RunAlone(other[1].config, other[1].rawResponse,
                                  other[1].fault)>>

\* C18: in every interleaving of the steps of two calls, a step of one call
\* leaves the state of the other call as it is, each call that has ended has
\* the exit it has when it runs alone, and no step changes the dispatchers'
\* schema table (the decoders and the client module in use).
C18_Independent ==
  /\ []Independent
  /\ [][/\ other' # other => callVars' = callVars
        /\ callVars' # callVars => other' = other
        /\ decoders' = decoders
        /\ client' = client]_vars

\* C18 witness: the second call started while the first was reading its
\* body text; both have ended, with different exits
C18_Witness ==
  /\ pc = "done"
  /\ calls = 1
  /\ other # <<>>
  /\ other[1].pc = "done"
  /\ other[1].startedAt = "text"
  /\ other[1].exit # exit
  /\ TheExit.channel = "Right"
  /\ other[1].exit[1].channel = "Left"

\* the decoder in use validates, and the parsed body fails its validation
ValidationFails ==
  /\ decoders = "validating"
  /\ ParsedBody.ok
  /\ ~(HasKey(ParsedBody.val, "id") /\ HasKey(ParsedBody.val, "name"))

C22_DispatchAfterTransport ==
  /\ dispatched \in {0, 1}
  /\ dispatched = 1 => rawResponse # <<>> /\ fault = <<>> /\ pc = "done"
  /\ rawResponse = <<>> => dispatched = 0
  /\ fault # <<>> =>
       /\ dispatched = 0
       /\ pc = "done"
       /\ TheExit.channel = "Left"
       /\ TheExit.value._tag = "TransportError"
  /\ pc = "done" /\ fault = <<>> => dispatched = 1

\* C22 witness: the call's dispatcher succeeds for every response; reading
\* the body text failed, the call ended with TransportError and without an
\* invocation of the dispatcher
C22_Witness ==
  /\ pc = "done"
  /\ TheOp = "succeedAlways"
  /\ response # <<>>
  /\ fault # <<>>
  /\ dispatched = 0
  /\ IsError("TransportError")

\* the statuses of a set of variants
StatusesOf(Variants) == {V.status : V \in Variants}

\* C23: a declared status belongs to the Success variants exactly when it
\* lies in 200..299 and to the HttpError variants exactly when it lies
\* outside 200..299; no declared status is in both sets or in neither.
C23_StatusPartition ==
  variants # <<>> =>
    \A s \in DOMAIN variants[1].responses :
      /\ s \in StatusesOf(variants[1].success) <=> s \in 200..299
      /\ s \in StatusesOf(variants[1].httpError) <=> s \notin 200..299
      /\ (s \in StatusesOf(variants[1].success))
           # (s \in StatusesOf(variants[1].httpError))

\* the exports of the decoders file that have a name
Exports(file, name) == {m \in 1..Len(file) : file[m].name = name}

\* the branches (dispatcher, status handler, content-type case) of a
\* dispatch file
Branches(file) ==
  {b \in (1..Len(file)) \X (1..3) \X (1..2) :
     /\ b[2] <= Len(file[b[1]].statusHandlers)
     /\ b[3] <= Len(file[b[1]].statusHandlers[b[2]].ctCases)}

\* the dispatcher of operation n has one case per declared status, and the
\* case of a status has one branch per declared content type, which invokes
\* the one decoder exported for that operation, status and content type
DispatcherConforms(g, n) ==
  /\ g.dispatch[n].operationId =
       operationIdOf(g.spec[n].method, g.spec[n].path, g.spec[n])
  /\ Len(g.dispatch[n].statusHandlers) = Len(g.spec[n].responses)
  /\ \A j \in 1..Len(g.spec[n].responses) :
       /\ g.dispatch[n].statusHandlers[j].status = g.spec[n].responses[j][1]
       /\ Len(g.dispatch[n].statusHandlers[j].ctCases) = Len(g.spec[n].responses[j][2])
       /\ \A k \in 1..Len(g.spec[n].responses[j][2]) :
            /\ g.dispatch[n].statusHandlers[j].ctCases[k].contentType =
                 g.spec[n].responses[j][2][k]
            /\ \E m \in 1..Len(g.decoders) :
                 /\ Exports(g.decoders, g.dispatch[n].statusHandlers[j].ctCases[k].decoder) = {m}
                 /\ g.decoders[m].operationId = g.dispatch[n].operationId
                 /\ g.decoders[m].status = g.spec[n].responses[j][1]
                 /\ g.decoders[m].contentType = g.spec[n].responses[j][2][k]
       /\ g.spec[n].responses[j][2] = <<>> =>
            ~\E m \in 1..Len(g.decoders) :
               /\ g.decoders[m].operationId = g.dispatch[n].operationId
               /\ g.decoders[m].status = g.spec[n].responses[j][1]

\* the generated files of the petstore document are the committed ones: the
\* decoders the decoders module exports, the statuses and content types of
\* the dispatchers' schema table
IsCommitted(g) ==
  /\ {g.decoders[m].name : m \in 1..Len(g.decoders)} = DecoderNames
  /\ {g.dispatch[n].operationId : n \in 1..Len(g.dispatch)} = Operations
  /\ \A n \in 1..Len(g.dispatch) :
       LET table == Schema(g.dispatch[n].operationId)
           handlers == g.dispatch[n].statusHandlers
       IN  /\ {handlers[j].status : j \in 1..Len(handlers)} =
                {ToString(s) : s \in DOMAIN table}
           /\ \A j \in 1..Len(handlers), s \in DOMAIN table :
                handlers[j].status = ToString(s) => handlers[j].expected = table[s]

\* C24: for every operation of the schema the generated dispatcher has a
\* branch for each declared status, each branch of a body-bearing status
\* invokes the decoder registered for that operation, status and content
\* type, the decoders module defines that decoder once, every decoder
\* defined is invoked by some branch, and a status declared without content
\* has no decoder.
C24_SchemaConformance ==
  generated # <<>> =>
    /\ Len(generated[1].dispatch) = Len(generated[1].spec)
    /\ \A n \in 1..Len(generated[1].spec) : DispatcherConforms(generated[1], n)
    /\ \A m \in 1..Len(generated[1].decoders) :
         \E b \in Branches(generated[1].dispatch) :
           generated[1].dispatch[b[1]].statusHandlers[b[2]].ctCases[b[3]].decoder
             = generated[1].decoders[m].name
    /\ generated[1].spec = Petstore => IsCommitted(generated[1])

\* C24 witness: a document of two operations was generated, one with a
\* status declared without content and a status of two content types
C24_Witness ==
  /\ generated # <<>>
  /\ Len(generated[1].spec) = 2
  /\ \E m \in 1..Len(generated[1].decoders) :
       generated[1].decoders[m].name = "decodeputOwner_200_application_xml"
  /\ \E n \in 1..2 :
       /\ generated[1].dispatch[n].name = "dispatcherdelete_pets__petId_"
       /\ generated[1].dispatch[n].statusHandlers[1].status = "202"
       /\ generated[1].dispatch[n].statusHandlers[1].ctCases = <<>>

\* C25: a response without content-type header on a status declared with a
\* JSON body yields UnexpectedContentType with actual undefined, expected
\* ["application/json"] and the raw body; the body is not parsed, no
\* decoder is invoked and the classification is no defect.
C25_MissingContentType ==
  Classified /\ Declared /\ DeclaredTypes = <<"application/json">>
    /\ "content-type" \notin DOMAIN rawResponse[1].headers =>
      /\ TheExit = FailWith([_tag |-> "UnexpectedContentType",
                             status |-> TheStatus,
                             expected |-> <<"application/json">>,
                             actual |-> <<>>, body |-> TheText])
      /\ parseCalls = 0
      /\ decodeCalls = <<>>

\* C25 witness: getPet answered 404 with a well-formed JSON body and no
\* content-type header
C25_Witness ==
  /\ Classified
  /\ TheOp = "getPet"
  /\ TheStatus = 404
  /\ rawResponse[1].headers = <<>>
  /\ TheText = "{\"id\":\"1\",\"name\":\"Fluffy\"}"
  /\ IsError("UnexpectedContentType")
  /\ TheExit.value.actual = <<>>

\* C26: for a status declared with no body the content-type step is
\* skipped: the outcome is the no-body success whatever the content-type
\* header (present, absent, undeclared) and the body text (empty, non-empty,
\* malformed); it is never UnexpectedContentType and never ParseError.
C26_NoBodySkipsContentType ==
  Classified /\ Declared /\ DeclaredTypes = <<>> =>
    /\ ~IsError("UnexpectedContentType")
    /\ ~IsError("ParseError")
    /\ TheExit.channel = "Right"
    /\ TheExit.value.status = TheStatus
    /\ TheExit.value.contentType = "none"
    /\ TheExit.value.body = Undefined

\* C26 witness: 204 of deletePet arrived with content type text/html and a
\* body text that is no JSON
C26_Witness ==
  /\ Classified
  /\ TheOp = "deletePet"
  /\ TheStatus = 204
  /\ TheContentType = <<"text/html">>
  /\ TheText = "I'm a teapot"
  /\ TheExit = Succeed([status |-> 204, contentType |-> "none", body |-> Undefined])

\* the outcomes that carry a contentType field
TypedOutcomes == {"Success", "HttpError", "ParseError", "DecodeError"}

\* C27: in every Success, HttpError, ParseError and DecodeError outcome the
\* status field is the response's status and the contentType field is a
\* content type the schema declares for that status, "none" for a status
\* declared without body; it is the declared constant also when the header
\* value differs from it.
C27_DeclaredContentType ==
  Classified /\ OutcomeKind(TheExit) \in TypedOutcomes =>
    /\ Declared
    /\ TheExit.value.status = TheStatus
    /\ TheExit.value.contentType \in
         (IF DeclaredTypes = <<>> THEN {"none"}
          ELSE {DeclaredTypes[n] : n \in 1..Len(DeclaredTypes)})

\* C27 witness: the header value carries a charset parameter, the outcome
\* carries the declared content type
C27_Witness ==
  /\ Classified
  /\ TheContentType = <<"application/json; charset=utf-8">>
  /\ OutcomeKind(TheExit) = "ParseError"
  /\ TheExit.value.contentType = "application/json"
  /\ TheExit.value.status = TheStatus

\* the methods buildRequest has a constructor for
MappedMethods == {"get", "post", "put", "patch", "delete", "head", "options"}

\* C28: executeRequest hands the transport a request: for every configured
\* method other than get, post, put, patch, delete, head and options a
\* request comes about and is a GET request, the method of the request is
\* the configured one for those seven (letter case apart), and the request
\* has headers exactly when the config has them and a body exactly when
\* the config has one.
C28_RequestBuilt ==
  request # <<>> =>
    /\ config[1].method \notin MappedMethods =>
         request[1].ok /\ request[1].method = "GET"
    /\ request[1].ok =>
         /\ config[1].method \in MappedMethods =>
              ToUpper(request[1].method) = ToUpper(config[1].method)
         /\ request[1].url = config[1].url
         /\ request[1].headers # <<>> <=> "headers" \in DOMAIN config[1]
         /\ request[1].body # <<>> <=> "body" \in DOMAIN config[1]
         /\ request[1].headers # <<>> => request[1].headers[1] = config[1].headers
         /\ request[1].body # <<>> => request[1].body[1] = config[1].body

\* the property of C28 for the HttpClient based module alone
PlatformRequestBuilt == client = "platform" => C28_RequestBuilt

\* C29: the Match-based and the switch-based dispatcher of an operation
\* return the same outcome with the same fields for every status, every
\* content-type header value or none, and every body text; they call
\* JSON.parse and the decoders alike, and the exit of the call is that
\* outcome whichever of them the package links.
C29_DispatchersEquivalent ==
  Classified =>
    /\ createSwitchDispatcher(TheOp, rawResponse[1])
         = createDispatcher(TheOp, rawResponse[1])
    /\ TheExit = createDispatcher(TheOp, rawResponse[1]).exit
    /\ TheExit = createSwitchDispatcher(TheOp, rawResponse[1]).exit

\* C29 witness: the switch-based dispatcher of deletePet classified a
\* declared 404 whose content type carries a charset parameter
C29_Witness ==
  /\ Classified
  /\ client = "fetch"
  /\ TheOp = "deletePet"
  /\ TheStatus = 404
  /\ TheContentType = <<"application/json; charset=utf-8">>
  /\ TheText = "{\"id\":\"1\",\"name\":\"Fluffy\"}"
  /\ TheExit = Succeed([status |-> 404, contentType |-> "application/json",
                        body |-> JSONparse(TheText).val])

\* the outcomes that carry a response of the schema
ResponseOutcomes == {"Success", "HttpError"}

\* C30 (as stated): with the generated decoders DecodeError is never
\* produced and the body of every Success or HttpError outcome equals the
\* parsed JSON value of the response body text.
C30_BodyIsParsedValue ==
  Classified /\ decoders = "stub" =>
    /\ ~IsError("DecodeError")
    /\ OutcomeKind(TheExit) \in ResponseOutcomes =>
         ParsedBody.ok /\ TheExit.value.body = ParsedBody.val

\* C30 (amended): every generated decoder accepts every parsed value and
\* returns it unchanged, so with the generated decoders DecodeError is never
\* produced, every classification that invoked a decoder ends in the
\* success channel, and the body of every Success or HttpError outcome of a
\* status declared with a body equals the parsed JSON value of the response
\* body text; the outcome of a status declared without body has an
\* undefined body.
C30_BodyIsParsedValueWhenDeclared ==
  Classified /\ decoders = "stub" =>
    /\ ~IsError("DecodeError")
    /\ decodeCalls # <<>> => TheExit.channel = "Right"
    /\ OutcomeKind(TheExit) \in ResponseOutcomes =>
         IF DeclaredTypes = <<>> THEN TheExit.value.body = Undefined
         ELSE /\ ParsedBody.ok
              /\ decodeCalls = <<DecoderFor(TheOp, TheStatus)>>
              /\ TheExit.value.body = ParsedBody.val

\* C30 witness: the stub decoder of listPets 500 was given an object that a
\* validating decoder rejects; the outcome's body is the parsed object
C30_Witness ==
  /\ Classified
  /\ decoders = "stub"
  /\ TheOp = "listPets"
  /\ TheStatus = 500
  /\ TheText = "{\"unexpected\": \"field\"}"
  /\ decodeCalls = <<"decodelistPets_500">>
  /\ TheExit.channel = "Right"
  /\ TheExit.value.body = JObj(<< <<"unexpected", JStr("field")>> >>)

=============================================================================
